---- MODULE Spec2Model ----
(***************************************************************************)
(* Phonebook backend (Express + Mongoose), final iteration of index.js     *)
(* (lines 334-532) together with the Person model of models/person.js.     *)
(*                                                                         *)
(* Strings are sequences of one-character strings, so that lengths and the *)
(* number pattern are computed on the characters.  An ObjectId is a        *)
(* natural number; its hex string is ObjectIdLen characters long (24 in    *)
(* MongoDB, scaled down here).                                             *)
(*                                                                         *)
(* Spec handles every request in one step: the handler, its single store   *)
(* call and the response (or the forward to the error handler) form one    *)
(* action.  SpecSteps handles a request in the steps the event loop takes: *)
(* the handler issues its store call, the call settles, the then or catch  *)
(* callback runs, and a forwarded error runs through the middleware chain. *)
(***************************************************************************)
EXTENDS Integers, Sequences, FiniteSets, TLC

VARIABLES people, nextId, req, settled, res, pc, call, events

vars == <<people, nextId, req, settled, res, pc, call, events>>

(***************************************************************************)
(* Bounds                                                                  *)
(***************************************************************************)
\* number of Person documents constructed (ObjectIds generated) in a run
MaxIds == 2

\* length of the hex string of an ObjectId
ObjectIdLen == 2

(***************************************************************************)
(* Values                                                                  *)
(***************************************************************************)
\* JavaScript undefined: a missing body field, a missing route parameter
Undefined == <<"undefined">>

\* JavaScript null: the value a query resolves with when no document matches
Null == [null |-> TRUE]

Ada == <<"A", "d", "a">>

Bob == <<"B", "o", "b">>

\* a name shorter than the schema's minLength
Al == <<"A", "l">>

\* "040-123456"
Num040 == <<"0", "4", "0", "-", "1", "2", "3", "4", "5", "6">>

\* "123456"
Num123456 == <<"1", "2", "3", "4", "5", "6">>

EmptyString == << >>

\* names a create request may carry in its body
PostNames == {Undefined, EmptyString, Al, Ada}

\* names an update request may carry in its body
PutNames == {Undefined, Bob}

\* numbers a create request may carry in its body
PostNumbers == {Undefined, EmptyString, Num123456, Num040}

\* numbers an update request may carry in its body
PutNumbers == {Undefined, Num123456, Num040}

Digits == {"0", "1", "2", "3", "4", "5", "6", "7", "8", "9"}

HexDigits == <<"0", "1", "2", "3", "4", "5", "6", "7", "8", "9", "a", "b", "c", "d", "e", "f">>

HexChars == {HexDigits[i] : i \in 1..16}

HexValue(c) == (CHOOSE i \in 1..16 : HexDigits[i] = c) - 1

(***************************************************************************)
(* ObjectId: hex string conversion and cast                                *)
(***************************************************************************)
RECURSIVE ToHex(_, _)
ToHex(n, len) == IF len = 0 THEN << >>
                 ELSE Append(ToHex(n \div 16, len - 1), HexDigits[(n % 16) + 1])

\* _id.toString()
ObjectIdToString(oid) == ToHex(oid, ObjectIdLen)

RECURSIVE ParseHex(_)
ParseHex(s) == IF Len(s) = 0 THEN 0
               ELSE 16 * ParseHex(SubSeq(s, 1, Len(s) - 1)) + HexValue(s[Len(s)])

\* does the route parameter parse as an ObjectId
IsValidObjectId(id) ==
    /\ id # Undefined
    /\ Len(id) = ObjectIdLen
    /\ \A i \in 1..Len(id) : id[i] \in HexChars

\* the ObjectId a well-formed route parameter denotes
castObjectId(id) == ParseHex(id)

\* a route parameter that is too short to be an ObjectId (such as "123")
TooShortId == SubSeq(ObjectIdToString(1), 1, ObjectIdLen - 1)

\* a route parameter of the right length that is not hexadecimal
NonHexId == [i \in 1..ObjectIdLen |-> "z"]

\* the :id route parameters requests are made with: every id the store may
\* hand out, one it never hands out, and two malformed ones
RouteIds == {ObjectIdToString(n) : n \in 1..(MaxIds + 1)} \cup {TooShortId, NonHexId}

(***************************************************************************)
(* Schema validation                                                       *)
(***************************************************************************)
NameMinLength == 3

NumberMinLength == 8

\* /^\d{2,3}-\d+$/.test(value)
numberValidator(value) ==
    \E k \in {2, 3} :
        /\ Len(value) >= k + 2
        /\ \A i \in 1..k : value[i] \in Digits
        /\ value[k + 1] = "-"
        /\ \A i \in (k + 2)..Len(value) : value[i] \in Digits

\* the number constraints of the schema of the command line script:
\* minLength 8 and the numberValidator pattern, on a number that is a string
NumberFailsValidation(value) ==
    /\ value # Undefined
    /\ \/ Len(value) < NumberMinLength
       \/ ~numberValidator(value)

ValidationMessage(path, kind, value) ==
    <<"Person validation failed", path, kind, value>>

\* validation of a document against personSchema of models/person.js:
\* name is required with minLength 3, number is a plain String without
\* validators.  Returns the ValidationError, or Null when the document passes.
validate(doc) ==
    IF doc.name = Undefined \/ Len(doc.name) = 0
    THEN [name |-> "ValidationError",
          message |-> ValidationMessage("name", "required", doc.name)]
    ELSE IF Len(doc.name) < NameMinLength
    THEN [name |-> "ValidationError",
          message |-> ValidationMessage("name", "minlength", doc.name)]
    ELSE Null

(***************************************************************************)
(* Serialisation                                                           *)
(***************************************************************************)
\* a transform that takes the id from the wrong internal field
toJSONVersionAsId(doc) ==
    [id |-> ObjectIdToString(doc.__v), name |-> doc.name, number |-> doc.number]

\* personSchema.set('toJSON'): id is _id as a string, _id and __v are dropped
toJSON(doc) ==
    [id |-> ObjectIdToString(doc._id), name |-> doc.name, number |-> doc.number]

(***************************************************************************)
(* Store calls.  Each returns how the promise settles.                     *)
(***************************************************************************)
Resolved(value) == [kind |-> "resolved", value |-> value]

Rejected(error) == [kind |-> "rejected", error |-> error]

CastError == [name |-> "CastError", message |-> <<"Cast to ObjectId failed">>]

\* a failure of the connection to the database
MongoNetworkError == [name |-> "MongoNetworkError", message |-> <<"connection failed">>]

Ids(docs) == {d._id : d \in docs}

DocById(docs, oid) == CHOOSE d \in docs : d._id = oid

\* Person.estimatedDocumentCount()
estimatedDocumentCount(docs, fault) ==
    IF fault THEN Rejected(MongoNetworkError) ELSE Resolved(Cardinality(docs))

\* the documents as an array in insertion order: ObjectIds grow with the
\* time of construction
RECURSIVE InIdOrder(_)
InIdOrder(docs) ==
    IF docs = {} THEN << >>
    ELSE LET last == CHOOSE d \in docs : \A e \in docs : e._id <= d._id
         IN Append(InIdOrder(docs \ {last}), last)

\* Person.find({}): every document
find(docs, fault) ==
    IF fault THEN Rejected(MongoNetworkError)
    ELSE Resolved(InIdOrder(docs))

\* Person.findById(id)
findById(docs, id, fault) ==
    IF ~IsValidObjectId(id) THEN Rejected(CastError)
    ELSE IF fault THEN Rejected(MongoNetworkError)
    ELSE IF castObjectId(id) \in Ids(docs)
         THEN Resolved(DocById(docs, castObjectId(id)))
         ELSE Resolved(Null)

\* new Person({name, number}): the constructor generates the _id
NewPerson(name, number) ==
    [_id |-> nextId, name |-> name, number |-> number, __v |-> 0]

\* newPerson.save(): validation runs before the insert
save(doc, fault) ==
    IF validate(doc) # Null THEN Rejected(validate(doc))
    ELSE IF fault THEN Rejected(MongoNetworkError)
    ELSE Resolved(doc)

\* an update object that carries the name too (the person object of the
\* commented-out code)
PutUpdateWithName(body) == [name |-> body.name, number |-> body.number]

\* the update object the update handler passes: the number only
PutUpdate(body) == [number |-> body.number]

\* a document after an update object has been applied; keys whose value is
\* undefined are removed from the update
ApplyUpdate(doc, update) ==
    [f \in DOMAIN doc |->
        IF f \in DOMAIN update /\ update[f] # Undefined THEN update[f] ELSE doc[f]]

\* runValidators: the schema validators of the paths the update sets.  The
\* schema of models/person.js has validators for name only.
validateUpdate(update) ==
    IF "name" \in DOMAIN update /\ update.name # Undefined
    THEN validate([name |-> update.name])
    ELSE Null

\* Person.findByIdAndUpdate(id, update, {new: true, runValidators: true,
\* context: 'query'}): the id is cast and the update validated before the
\* store is called; with new: true the promise resolves with the updated
\* document, or with null when no document has the id
findByIdAndUpdate(docs, id, update, fault) ==
    IF ~IsValidObjectId(id) THEN Rejected(CastError)
    ELSE IF validateUpdate(update) # Null THEN Rejected(validateUpdate(update))
    ELSE IF fault THEN Rejected(MongoNetworkError)
    ELSE IF castObjectId(id) \in Ids(docs)
         THEN Resolved(ApplyUpdate(DocById(docs, castObjectId(id)), update))
         ELSE Resolved(Null)

\* Person.findByIdAndRemove(id): resolves with the removed document or null
findByIdAndRemove(docs, id, fault) ==
    IF ~IsValidObjectId(id) THEN Rejected(CastError)
    ELSE IF fault THEN Rejected(MongoNetworkError)
    ELSE IF castObjectId(id) \in Ids(docs)
         THEN Resolved(DocById(docs, castObjectId(id)))
         ELSE Resolved(Null)

(***************************************************************************)
(* Responses                                                               *)
(***************************************************************************)
EmptyBody == [kind |-> "empty"]

Response(status, body) == [status |-> status, body |-> body]

\* res.json(value) for a document or null
JsonDoc(value) ==
    IF value = Null THEN [kind |-> "null"]
    ELSE [kind |-> "person", person |-> toJSON(value)]

\* res.json(notes) for an array of documents
JsonList(docs) == [kind |-> "list", list |-> [i \in 1..Len(docs) |-> toJSON(docs[i])]]

JsonError(message) == [kind |-> "error", error |-> message]

\* `Phonebook has info for ${count} people<br/>${date}`
InfoPage(count) == [kind |-> "html", count |-> count]

\* the default Express error handler, reached by next(error)
DefaultErrorHandler(error) == Response(500, [kind |-> "errorpage"])

\* an error handler without the CastError branch
errorHandlerNoCast(error) ==
    IF error.name = "ValidationError"
    THEN Response(400, JsonError(error.message))
    ELSE DefaultErrorHandler(error)

\* the error handler of the earlier iteration, without the ValidationError
\* branch
errorHandlerEarlier(error) ==
    IF error.name = "CastError"
    THEN Response(400, JsonError(<<"malformatted id">>))
    ELSE DefaultErrorHandler(error)

\* error-handling middleware, the last in the chain
errorHandler(error) ==
    IF error.name = "CastError"
    THEN Response(400, JsonError(<<"malformatted id">>))
    ELSE IF error.name = "ValidationError"
    THEN Response(400, JsonError(error.message))
    ELSE DefaultErrorHandler(error)

(***************************************************************************)
(* Requests                                                                *)
(***************************************************************************)
NoBody == [name |-> Undefined, number |-> Undefined]

Request(method, path, id, body) ==
    [method |-> method, path |-> path, id |-> id, body |-> body]

\* no store call has been issued
NoCall == [op |-> "none"]

Init ==
    /\ people = {}
    /\ nextId = 1
    /\ req = Request("NONE", "", Undefined, NoBody)
    /\ settled = Resolved(Null)
    /\ res = Response(0, EmptyBody)
    /\ pc = "idle"
    /\ call = NoCall
    /\ events = << >>

\* what every request does besides its own effect
Answer(request, outcome, response) ==
    /\ req' = request
    /\ settled' = outcome
    /\ res' = response
    /\ UNCHANGED <<pc, call, events>>

\* the length of the persons array of the in-memory iteration
PersonsInMemory == 4

\* an /info handler that reports the length of the in-memory array
InfoResponseInMemory(outcome) ==
    IF outcome.kind = "resolved" THEN Response(200, InfoPage(PersonsInMemory))
    ELSE errorHandler(outcome.error)

\* the response of the /info handler to a settled count
InfoResponse(outcome) ==
    IF outcome.kind = "resolved" THEN Response(200, InfoPage(outcome.value))
    ELSE errorHandler(outcome.error)

\* app.get('/info')
GetInfo(fault) ==
    LET outcome == estimatedDocumentCount(people, fault) IN
    /\ Answer(Request("GET", "/info", Undefined, NoBody), outcome, InfoResponse(outcome))
    /\ UNCHANGED <<people, nextId>>

\* app.get('/api/persons')
GetPersons(fault) ==
    LET outcome == find(people, fault) IN
    /\ Answer(Request("GET", "/api/persons", Undefined, NoBody), outcome,
              IF outcome.kind = "resolved" THEN Response(200, JsonList(outcome.value))
              ELSE errorHandler(outcome.error))
    /\ UNCHANGED <<people, nextId>>

\* a get-by-id handler that answers with whatever the lookup resolved with
GetPersonResponseNoCheck(outcome) ==
    IF outcome.kind = "rejected" THEN errorHandler(outcome.error)
    ELSE Response(200, JsonDoc(outcome.value))

\* the response of the get-by-id handler to a settled lookup
GetPersonResponse(outcome) ==
    IF outcome.kind = "rejected" THEN errorHandler(outcome.error)
    ELSE IF outcome.value # Null THEN Response(200, JsonDoc(outcome.value))
    ELSE Response(404, EmptyBody)

\* app.get('/api/persons/:id')
GetPerson(id, fault) ==
    LET outcome == findById(people, id, fault) IN
    /\ Answer(Request("GET", "/api/persons/:id", id, NoBody), outcome,
              GetPersonResponse(outcome))
    /\ UNCHANGED <<people, nextId>>

\* app.post('/api/persons')
PostPerson(name, number, fault) ==
    LET newPerson == NewPerson(name, number)
        outcome == save(newPerson, fault)
    IN
    /\ nextId <= MaxIds
    /\ Answer(Request("POST", "/api/persons", Undefined, [name |-> name, number |-> number]),
              outcome,
              IF outcome.kind = "resolved" THEN Response(200, JsonDoc(outcome.value))
              ELSE errorHandler(outcome.error))
    /\ people' = IF outcome.kind = "resolved" THEN people \cup {outcome.value} ELSE people
    /\ nextId' = nextId + 1

\* the response of the update handler to a settled update
PutPersonResponse(outcome) ==
    IF outcome.kind = "resolved" THEN Response(200, JsonDoc(outcome.value))
    ELSE errorHandler(outcome.error)

\* app.put('/api/persons/:id')
PutPerson(id, name, number, fault) ==
    LET body == [name |-> name, number |-> number]
        outcome == findByIdAndUpdate(people, id, PutUpdate(body), fault)
    IN
    /\ Answer(Request("PUT", "/api/persons/:id", id, body), outcome,
              PutPersonResponse(outcome))
    /\ people' = IF outcome.kind = "resolved" /\ outcome.value # Null
                 THEN {d \in people : d._id # outcome.value._id} \cup {outcome.value}
                 ELSE people
    /\ UNCHANGED nextId

\* a delete handler that reports a removal that found nothing
DeletePersonResponseNotFound(outcome) ==
    IF outcome.kind = "rejected" THEN errorHandler(outcome.error)
    ELSE IF outcome.value = Null THEN Response(404, EmptyBody)
    ELSE Response(204, EmptyBody)

\* the response of the delete handler to a settled removal
DeletePersonResponse(outcome) ==
    IF outcome.kind = "resolved" THEN Response(204, EmptyBody)
    ELSE errorHandler(outcome.error)

\* app.delete('/api/persons/:id')
DeletePerson(id, fault) ==
    LET outcome == findByIdAndRemove(people, id, fault) IN
    /\ Answer(Request("DELETE", "/api/persons/:id", id, NoBody), outcome,
              DeletePersonResponse(outcome))
    /\ people' = IF outcome.kind = "resolved" /\ outcome.value # Null
                 THEN {d \in people : d._id # outcome.value._id}
                 ELSE people
    /\ UNCHANGED nextId

Next ==
    \/ \E fault \in BOOLEAN : GetInfo(fault)
    \/ \E fault \in BOOLEAN : GetPersons(fault)
    \/ \E id \in RouteIds, fault \in BOOLEAN : GetPerson(id, fault)
    \/ \E name \in PostNames, number \in PostNumbers, fault \in BOOLEAN :
          PostPerson(name, number, fault)
    \/ \E id \in RouteIds, name \in PutNames, number \in PutNumbers, fault \in BOOLEAN :
          PutPerson(id, name, number, fault)
    \/ \E id \in RouteIds, fault \in BOOLEAN : DeletePerson(id, fault)

Spec == Init /\ [][Next]_vars

(***************************************************************************)
(* Shape of the state                                                      *)
(***************************************************************************)
\* the store call of the last request failed for a reason that is neither a
\* malformed id nor a schema violation
StoreFault == settled.kind = "rejected" /\ settled.error.name = "MongoNetworkError"

TypeOK ==
    /\ nextId \in 1..(MaxIds + 1)
    /\ \A d \in people : d._id \in 1..(nextId - 1)
    /\ res.status \in {0, 200, 204, 400, 404, 500}

IsCreate(r) == r.method = "POST" /\ r.path = "/api/persons"

IsUpdate(r) == r.method = "PUT" /\ r.path = "/api/persons/:id"

IsGetById(r) == r.method = "GET" /\ r.path = "/api/persons/:id"

IsDelete(r) == r.method = "DELETE" /\ r.path = "/api/persons/:id"

IsList(r) == r.method = "GET" /\ r.path = "/api/persons"

IsInfo(r) == r.method = "GET" /\ r.path = "/info"

\* the request addresses, with a well-formed id, a document of docs
Addresses(r, docs) == IsValidObjectId(r.id) /\ castObjectId(r.id) \in Ids(docs)

\* the request has a well-formed id that no document of docs has
AddressesNone(r, docs) == IsValidObjectId(r.id) /\ castObjectId(r.id) \notin Ids(docs)

\* what a list request answers in a store holding docs
Listed(docs) == JsonList(find(docs, FALSE).value).list

ListedSet(docs) == {Listed(docs)[i] : i \in 1..Len(Listed(docs))}

MalformattedId == Response(400, JsonError(<<"malformatted id">>))

(***************************************************************************)
(* The steps of a request                                                  *)
(***************************************************************************)
\* the requests of the six operations
Requests ==
    {Request("GET", "/info", Undefined, NoBody),
     Request("GET", "/api/persons", Undefined, NoBody)}
    \cup {Request("GET", "/api/persons/:id", id, NoBody) : id \in RouteIds}
    \cup {Request("POST", "/api/persons", Undefined, [name |-> name, number |-> number]) :
             name \in PostNames, number \in PostNumbers}
    \cup {Request("PUT", "/api/persons/:id", id, [name |-> name, number |-> number]) :
             id \in RouteIds, name \in PutNames, number \in PutNumbers}
    \cup {Request("DELETE", "/api/persons/:id", id, NoBody) : id \in RouteIds}

\* a request that no route matches
UnknownRequest == Request("GET", "/unknown", Undefined, NoBody)

IsOperation(r) ==
    IsInfo(r) \/ IsList(r) \/ IsGetById(r) \/ IsCreate(r) \/ IsUpdate(r) \/ IsDelete(r)

\* the store call the route handler of a request issues before it returns
StoreCallOf(r) ==
    IF IsInfo(r) THEN [op |-> "estimatedDocumentCount"]
    ELSE IF IsList(r) THEN [op |-> "find"]
    ELSE IF IsGetById(r) THEN [op |-> "findById", id |-> r.id]
    ELSE IF IsCreate(r)
    THEN [op |-> "save", doc |-> NewPerson(r.body.name, r.body.number)]
    ELSE IF IsUpdate(r)
    THEN [op |-> "findByIdAndUpdate", id |-> r.id, update |-> PutUpdate(r.body)]
    ELSE [op |-> "findByIdAndRemove", id |-> r.id]

\* how a store call settles against the documents docs
Execute(c, docs, fault) ==
    CASE c.op = "estimatedDocumentCount" -> estimatedDocumentCount(docs, fault)
      [] c.op = "find" -> find(docs, fault)
      [] c.op = "findById" -> findById(docs, c.id, fault)
      [] c.op = "save" -> save(c.doc, fault)
      [] c.op = "findByIdAndUpdate" -> findByIdAndUpdate(docs, c.id, c.update, fault)
      [] c.op = "findByIdAndRemove" -> findByIdAndRemove(docs, c.id, fault)

\* the documents after a store call has settled
StoreAfter(c, docs, outcome) ==
    IF outcome.kind # "resolved" THEN docs
    ELSE CASE c.op = "save" -> docs \cup {outcome.value}
           [] c.op = "findByIdAndUpdate" /\ outcome.value # Null ->
                 {d \in docs : d._id # outcome.value._id} \cup {outcome.value}
           [] c.op = "findByIdAndRemove" /\ outcome.value # Null ->
                 {d \in docs : d._id # outcome.value._id}
           [] OTHER -> docs

\* the response the then callback of the route handler sends
ThenResponse(r, outcome) ==
    IF IsInfo(r) THEN InfoResponse(outcome)
    ELSE IF IsList(r) THEN Response(200, JsonList(outcome.value))
    ELSE IF IsGetById(r) THEN GetPersonResponse(outcome)
    ELSE IF IsCreate(r) THEN Response(200, JsonDoc(outcome.value))
    ELSE IF IsUpdate(r) THEN PutPersonResponse(outcome)
    ELSE DeletePersonResponse(outcome)

\* a handler without a catch callback: the rejection is left unhandled
onRejectedNoCatch(r) == << >>

\* what the route handler does when its store call rejects:
\* .catch(error => next(error))
onRejected(r) == <<"handler:next(error)">>

\* what the route handler does when its store call resolves: its then
\* callback sends the response
onResolved(r) == <<"handler:response">>

\* the middleware in the order it is registered, with the number of
\* parameters of each function: the routes, unknownEndpoint, errorHandler
Middleware ==
    <<[name |-> "routes", params |-> 3],
      [name |-> "unknownEndpoint", params |-> 2],
      [name |-> "errorHandler", params |-> 4]>>

\* the position of the route handlers in the chain
RoutesAt == CHOOSE i \in 1..Len(Middleware) : Middleware[i].name = "routes"

Least(S) == CHOOSE i \in S : \A j \in S : i <= j

\* next(error) called at position i: the first later middleware that takes
\* four parameters, or 0 for the default Express error handler
NextErrorMiddleware(i) ==
    LET later == {j \in (i + 1)..Len(Middleware) : Middleware[j].params = 4}
    IN IF later = {} THEN 0 ELSE Least(later)

\* next() called at position i, or a request no route matches: the first
\* later middleware that takes fewer than four parameters, or 0
NextMiddleware(i) ==
    LET later == {j \in (i + 1)..Len(Middleware) : Middleware[j].params < 4}
    IN IF later = {} THEN 0 ELSE Least(later)

\* unknownEndpoint
UnknownEndpointResponse == Response(404, JsonError(<<"unknown endpoint">>))

\* the route handler runs up to the return of its store call's promise
Receive(r) ==
    /\ pc \in {"idle", "done"}
    /\ IsCreate(r) => nextId <= MaxIds
    /\ req' = r
    /\ call' = StoreCallOf(r)
    /\ nextId' = IF IsCreate(r) THEN nextId + 1 ELSE nextId
    /\ settled' = [kind |-> "pending"]
    /\ res' = Response(0, EmptyBody)
    /\ events' = << >>
    /\ pc' = "pending"
    /\ UNCHANGED people

\* a request no route matches falls through to unknownEndpoint
ReceiveUnknown ==
    /\ pc \in {"idle", "done"}
    /\ Middleware[NextMiddleware(RoutesAt)].name = "unknownEndpoint"
    /\ req' = UnknownRequest
    /\ call' = NoCall
    /\ settled' = [kind |-> "pending"]
    /\ res' = UnknownEndpointResponse
    /\ events' = <<"unknownEndpoint:response">>
    /\ pc' = "done"
    /\ UNCHANGED <<people, nextId>>

\* the store call settles
Settle(fault) ==
    /\ pc = "pending"
    /\ settled' = Execute(call, people, fault)
    /\ people' = StoreAfter(call, people, settled')
    /\ pc' = "settled"
    /\ UNCHANGED <<nextId, req, res, call, events>>

\* the then callback or the catch callback of the route handler runs
Callback ==
    /\ pc = "settled"
    /\ IF settled.kind = "resolved"
       THEN /\ events' = onResolved(req)
            /\ res' = ThenResponse(req, settled)
            /\ pc' = "done"
       ELSE /\ events' = onRejected(req)
            /\ res' = res
            /\ pc' = IF "handler:next(error)" \in {events'[i] : i \in 1..Len(events')}
                     THEN "error" ELSE "done"
    /\ UNCHANGED <<people, nextId, req, settled, call>>

\* the forwarded error runs through the error-handling middleware
ErrorMiddleware ==
    LET target == NextErrorMiddleware(RoutesAt)
        answer == IF target # 0 /\ Middleware[target].name = "errorHandler"
                  THEN errorHandler(settled.error)
                  ELSE DefaultErrorHandler(settled.error)
    IN
    /\ pc = "error"
    /\ res' = answer
    /\ events' = events \o
          (IF target = 0 THEN <<"default:response">>
           ELSE IF answer = DefaultErrorHandler(settled.error)
           THEN <<"errorHandler:next(error)", "default:response">>
           ELSE <<"errorHandler:response">>)
    /\ pc' = "done"
    /\ UNCHANGED <<people, nextId, req, settled, call>>

NextSteps ==
    \/ \E r \in Requests : Receive(r)
    \/ ReceiveUnknown
    \/ \E fault \in BOOLEAN : Settle(fault)
    \/ Callback
    \/ ErrorMiddleware

SpecSteps == Init /\ [][NextSteps]_vars

\* the event loop runs the callbacks of a settled promise, and Express runs
\* the middleware a handler forwards to; nothing makes a store call settle
SpecStepsFair == SpecSteps /\ WF_vars(Callback) /\ WF_vars(ErrorMiddleware)

\* how often an event occurs among the events of the request
Count(e) == Cardinality({i \in 1..Len(events) : events[i] = e})

\* the responses sent for the request, by whomever
Responses ==
    Count("handler:response") + Count("errorHandler:response")
        + Count("default:response") + Count("unknownEndpoint:response")

(***************************************************************************)
(* Claims.  Each is read for requests whose store call does not fail for   *)
(* a reason of the database connection (StoreFault); a step of the model   *)
(* is one request, req' the request made and res' its response.            *)
(***************************************************************************)

\* C1: a create request whose number is shorter than 8 characters or does
\* not match two or three digits, hyphen, digits is answered with status 400
\* and leaves the set of stored records as it was.
C1_InvalidNumberRejected ==
    [][(IsCreate(req') /\ NumberFailsValidation(req'.body.number) /\ ~StoreFault')
         => (res'.status = 400 /\ people' = people)]_vars

\* C2: a create request whose name or number is missing or empty is answered
\* with status 400 and a JSON body {error: reason}, and the set of stored
\* records is unchanged.
C2_MissingFieldRejected ==
    [][(/\ IsCreate(req')
        /\ \/ req'.body.name \in {Undefined, EmptyString}
           \/ req'.body.number \in {Undefined, EmptyString}
        /\ ~StoreFault')
         => (res'.status = 400 /\ res'.body.kind = "error" /\ people' = people)]_vars

\* C3: an update request on an existing record with a number that fails
\* validation is answered with status 400, and the stored number, name and
\* id of that record are what they were.
C3_InvalidUpdateRejected ==
    [][(/\ IsUpdate(req')
        /\ Addresses(req', people)
        /\ NumberFailsValidation(req'.body.number)
        /\ ~StoreFault')
         => (/\ res'.status = 400
             /\ Addresses(req', people')
             /\ DocById(people', castObjectId(req'.id)) = DocById(people, castObjectId(req'.id)))]_vars

\* C4: an update request whose well-formed id matches no stored record is
\* answered with status 404 and leaves the store unchanged.
C4_UpdateOfAbsentIs404 ==
    [][(IsUpdate(req') /\ AddressesNone(req', people) /\ ~StoreFault')
         => (res'.status = 404 /\ people' = people)]_vars

\* C5: an update request with a valid number on an existing record changes
\* only the number of that record: the response carries the new number with
\* the name and id the record had, the stored name and id stay even when the
\* body carries a name, and every other stored record is unchanged.  No
\* update request, whatever its number, changes a name, an id or another
\* record.
C5_UpdateChangesNumberOnly ==
    [][IsUpdate(req') =>
        /\ Ids(people') = Ids(people)
        /\ \A d \in people :
              /\ DocById(people', d._id).name = d.name
              /\ (~Addresses(req', {d})) => d \in people'
        /\ (/\ Addresses(req', people)
            /\ req'.body.number # Undefined
            /\ ~NumberFailsValidation(req'.body.number)
            /\ ~StoreFault')
             => LET old == DocById(people, castObjectId(req'.id)) IN
                /\ res'.status = 200
                /\ res'.body.kind = "person"
                /\ res'.body.person = [id |-> req'.id, name |-> old.name,
                                       number |-> req'.body.number]
                /\ people' = (people \ {old})
                                \cup {[old EXCEPT !.number = req'.body.number]}]_vars

\* C5 witness: an update carrying the name Bob and a valid number was
\* answered with the record under its old name Ada, next to another record.
C5_Witness ==
    /\ IsUpdate(req)
    /\ req.body.name = Bob
    /\ req.body.number = Num040
    /\ res.status = 200
    /\ res.body.kind = "person"
    /\ res.body.person.name = Ada
    /\ res.body.person.number = Num040
    /\ \E d \in people : d._id # castObjectId(req.id) /\ d.number # Num040

\* C6: a get-by-id request whose well-formed id matches no stored record is
\* answered with status 404 and an empty body, and the store is unchanged.
C6_GetOfAbsentIs404 ==
    [][(IsGetById(req') /\ AddressesNone(req', people) /\ ~StoreFault')
         => (res' = Response(404, EmptyBody) /\ people' = people)]_vars

\* C6 witness: a non-empty store was asked for a well-formed id it does not
\* hold, the lookup resolved with null and the answer was 404.
C6_Witness ==
    /\ IsGetById(req)
    /\ AddressesNone(req, people)
    /\ people # {}
    /\ settled = Resolved(Null)
    /\ res.status = 404

\* C7: a get-by-id request whose id does not parse as an ObjectId is
\* answered with status 400 and {error: "malformatted id"}, whatever the
\* state of the store and of the connection: never 5xx, 200 or 404.
C7_MalformedGetIs400 ==
    [][(IsGetById(req') /\ ~IsValidObjectId(req'.id))
         => (res' = MalformattedId /\ people' = people)]_vars

\* C7 witness: a get-by-id request with a too short id was answered 400.
C7_Witness ==
    /\ IsGetById(req)
    /\ req.id = TooShortId
    /\ settled.kind = "rejected"
    /\ res.status = 400

\* C8 as stated: every delete request is answered with status 204 and an
\* empty body, and a second delete of the same id leaves the store as the
\* first left it.
C8_EveryDeleteIs204 ==
    [][(IsDelete(req') /\ ~StoreFault')
         => (/\ res' = Response(204, EmptyBody)
             /\ (IsDelete(req) /\ req.id = req'.id /\ res.status = 204)
                   => people' = people)]_vars

\* C8 amended: a delete request whose id is well-formed is answered with
\* status 204 and an empty body whether or not a record has that id; after
\* it no record has the id and every other record is unchanged, so a second
\* delete of the same id is answered 204 and leaves the store as the first
\* left it.  A delete request whose id is malformed is answered with status
\* 400 and {error: "malformatted id"} and changes nothing.
C8_DeleteIdempotent ==
    [][(IsDelete(req') /\ ~StoreFault')
         => IF IsValidObjectId(req'.id)
            THEN /\ res' = Response(204, EmptyBody)
                 /\ people' = {d \in people : d._id # castObjectId(req'.id)}
                 /\ (IsDelete(req) /\ req.id = req'.id /\ res.status = 204)
                       => people' = people
            ELSE /\ res' = MalformattedId
                 /\ people' = people]_vars

\* C8 witness: a delete of a well-formed id that no record had (as after a
\* first delete of it) resolved with null and was answered 204, other
\* records being stored.
C8_Witness ==
    /\ IsDelete(req)
    /\ IsValidObjectId(req.id)
    /\ settled = Resolved(Null)
    /\ res = Response(204, EmptyBody)
    /\ people # {}

\* C9: after a successful create request with name n and number m, a list
\* request returns every previously stored record unchanged plus exactly one
\* new record with name n, number m character for character and a non-empty
\* id different from the id of every other record; no later request alters
\* the id under which a record is stored and listed.
C9_CreateThenList ==
    /\ [](Cardinality({r.id : r \in ListedSet(people)}) = Len(Listed(people)))
    /\ [][/\ (IsCreate(req') /\ res'.status = 200) =>
                /\ res'.body.kind = "person"
                /\ res'.body.person.name = req'.body.name
                /\ res'.body.person.number = req'.body.number
                /\ Len(res'.body.person.id) > 0
                /\ \A r \in ListedSet(people) : r.id # res'.body.person.id
                /\ ListedSet(people') = ListedSet(people) \cup {res'.body.person}
                /\ Len(Listed(people')) = Len(Listed(people)) + 1
          /\ (IsList(req') /\ ~StoreFault') =>
                /\ res'.status = 200
                /\ res'.body.kind = "list"
                /\ res'.body.list = Listed(people)
                /\ people' = people
                /\ (IsCreate(req) /\ res.status = 200) =>
                      Cardinality({i \in 1..Len(res'.body.list) :
                                      res'.body.list[i] = res.body.person}) = 1
          /\ (people' # people) =>
                \A r \in ListedSet(people) :
                    \/ IsDelete(req') /\ req'.id = r.id
                    \/ \E q \in ListedSet(people') : q.id = r.id /\ q.name = r.name]_vars

\* C9 witness: Ada was created with the number 040-123456 next to a record
\* stored before, and the store lists both.
C9_Witness ==
    /\ IsCreate(req)
    /\ res.status = 200
    /\ res.body.kind = "person"
    /\ res.body.person.name = Ada
    /\ res.body.person.number = Num040
    /\ res.body.person \in ListedSet(people)
    /\ Len(Listed(people)) = 2

\* C10: the count the info operation reports equals the number of records
\* a list request returns in the same state, after any sequence of create,
\* update and delete requests.
C10_InfoCountIsListLength ==
    /\ (IsInfo(req) /\ res.status = 200)
          => (res.body.kind = "html" /\ res.body.count = Len(Listed(people)))
    /\ (IsList(req) /\ res.status = 200)
          => Len(res.body.list) = InfoResponse(estimatedDocumentCount(people, FALSE)).body.count

\* C10 witness: info reported one record after two documents had been
\* constructed, one of which is not stored.
C10_Witness ==
    /\ IsInfo(req)
    /\ res.status = 200
    /\ res.body.count = 1
    /\ nextId > 2

\* C11: every failure a handler of the six operations forwards reaches
\* errorHandler, the one error-handling middleware, registered last; it
\* answers a CastError with 400 {error: "malformatted id"}, a
\* ValidationError with 400 {error: message}, and passes any other failure
\* on to the default handler, whose answer is never a 2xx.  Every rejected
\* store call is forwarded.
C11_FailuresReachErrorHandler ==
    /\ pc = "error" =>
          /\ settled.kind = "rejected"
          /\ events = <<"handler:next(error)">>
          /\ NextErrorMiddleware(RoutesAt) = Len(Middleware)
          /\ Middleware[NextErrorMiddleware(RoutesAt)].name = "errorHandler"
          /\ Cardinality({i \in 1..Len(Middleware) : Middleware[i].params = 4}) = 1
    /\ (pc = "done" /\ IsOperation(req) /\ settled.kind = "rejected") =>
          /\ events[1] = "handler:next(error)"
          /\ CASE settled.error.name = "CastError" ->
                    /\ events = <<"handler:next(error)", "errorHandler:response">>
                    /\ res = MalformattedId
               [] settled.error.name = "ValidationError" ->
                    /\ events = <<"handler:next(error)", "errorHandler:response">>
                    /\ res = Response(400, JsonError(settled.error.message))
               [] OTHER ->
                    /\ events = <<"handler:next(error)", "errorHandler:next(error)",
                                  "default:response">>
                    /\ res.status \notin 200..299
                    /\ res.status # 0

\* C11 witness: the save of a create request without a name rejected with a
\* ValidationError, the handler forwarded it and errorHandler answered 400
\* with the message.
C11_Witness ==
    /\ pc = "done"
    /\ IsCreate(req)
    /\ settled.kind = "rejected"
    /\ settled.error.name = "ValidationError"
    /\ events = <<"handler:next(error)", "errorHandler:response">>
    /\ res.status = 400
    /\ res.body.kind = "error"

\* C12: for each of the six route handlers and each outcome of its store
\* call, the request ends with exactly one of two events: one response sent
\* by the handler (store call resolved) or one forward of the failure to the
\* error handler (store call rejected).  A request whose store call has
\* settled gets its response (the callbacks run), exactly one when the
\* callbacks have run; no request has more than one, and none is answered
\* before its store call settles.
C12_OneResponseOrOneForward ==
    /\ [](/\ Responses <= 1
          /\ Count("handler:response") + Count("handler:next(error)") <= 1
          /\ pc \in {"idle", "pending", "settled", "error"} =>
                Responses = 0 /\ res.status = 0
          /\ pc = "settled" =>
                settled.kind \in {"resolved", "rejected"} /\ events = << >>
          /\ pc = "error" => Count("handler:next(error)") = 1
          /\ (pc = "done" /\ IsOperation(req)) =>
                /\ Responses = 1
                /\ res.status # 0
                /\ Count("handler:response") + Count("handler:next(error)") = 1
                /\ settled.kind = "resolved" <=> Count("handler:response") = 1
                /\ settled.kind = "rejected" <=> Count("handler:next(error)") = 1)
    /\ (pc = "settled") ~> (pc = "done" /\ Responses = 1)

\* C12 witness: the removal of a delete request rejected on the connection,
\* the handler forwarded the failure once and the request got one response.
C12_Witness ==
    /\ pc = "done"
    /\ IsDelete(req)
    /\ StoreFault
    /\ Count("handler:next(error)") = 1
    /\ Count("handler:response") = 0
    /\ Responses = 1
    /\ res.status = 500
====
